---- MODULE Spec2Model ----
(***************************************************************************)
(* Model of the voice-agent orchestrator (src/orchestrator/main.py).       *)
(*                                                                         *)
(* The orchestrator is one asyncio event loop.  Every action below is the  *)
(* code that runs between two suspension points (await) of one coroutine:  *)
(* a frame loop (process_audio_stream / handle_vad), a turn task           *)
(* (trigger_conversation_turn and the stages it awaits) or an event        *)
(* handler of main().  The collaborators (detector, transcriber, answer    *)
(* service, synthesizer) are the environment: each response is drawn from  *)
(* a small set of outcomes.                                                *)
(*                                                                         *)
(* Scaling.  Frames stay 30 ms long, but the silence threshold and the     *)
(* maximum speech duration are scaled down (700 ms -> SILENCE_DURATION_MS, *)
(* 20 s -> MAX_SPEECH_DURATION_MS) and the outbound sample rate is scaled  *)
(* (48000 -> OUT_SAMPLE_RATE) so that buffers stay a few frames long.      *)
(* Every property is stated in terms of these names, not of their values.  *)
(***************************************************************************)
EXTENDS Integers, Sequences, FiniteSets, TLC

\* Participant identities of the room (the bot identity never gets a
\* processor, orchestrator/main.py:252).
Identities == {"a", "b"}

VAD_CHUNK_DURATION_MS == 30
\* scaled thresholds (see the header)
SILENCE_DURATION_MS == 60
MAX_SPEECH_DURATION_MS == 90
OUT_SAMPLE_RATE == 100
FRAME_DURATION_MS == 20

\* bounds of the environment
MaxFrames == 5     \* inbound frames one participant sends when alone in the room
MaxLoops == 2      \* audio tracks one participant publishes when alone in the room

VARIABLES
    processors,         \* main(): position of each identity in the dict `processors`
    session_open,       \* ParticipantProcessor.session: not yet closed
    audio_buffer,       \* ParticipantProcessor.audio_buffer (frames, in order)
    is_speaking,        \* ParticipantProcessor.is_speaking
    silence_frames,     \* ParticipantProcessor.silence_frames
    speech_duration_ms, \* ParticipantProcessor.speech_duration_ms
    processing_lock,    \* ParticipantProcessor.processing_lock (asyncio.Lock)
    loops,              \* the process_audio_stream tasks of each processor
    turns,              \* the trigger_conversation_turn tasks of each processor
    track,              \* frames captured by the shared audio_source, in order
    frames_in,          \* number of inbound frames delivered so far, per identity
    quota,              \* environment: frames and tracks each participant will send
    dropped,            \* history: frames skipped at line 57, per identity
    nonspeech_run,      \* history: consecutive non-speech classifications, per identity
    call                \* one request to a collaborator service, and its response

vars == <<processors, session_open, audio_buffer, is_speaking, silence_frames,
          speech_duration_ms, processing_lock, loops, turns, track, frames_in,
          quota, dropped, nonspeech_run, call>>

session_vars == <<audio_buffer, is_speaking, silence_frames, speech_duration_ms>>

----------------------------------------------------------------------------
\* Pure helpers

Min(a, b) == IF a < b THEN a ELSE b

IsSpace(c) == c = " "

\* str.strip(): drop leading and trailing whitespace
RECURSIVE LStrip(_)
LStrip(s) == IF s # <<>> /\ IsSpace(Head(s)) THEN LStrip(Tail(s)) ELSE s

RECURSIVE RStrip(_)
RStrip(s) ==
    IF s # <<>> /\ IsSpace(s[Len(s)]) THEN RStrip(SubSeq(s, 1, Len(s) - 1)) ELSE s

\* Mutant of Strip: the text is used as received
Strip_Missing(s) == s

Strip(s) == RStrip(LStrip(s))

\* Mutant of Falsy: the result of a stage is not looked at
Falsy_Never(s) == FALSE

\* Python truthiness of a str / bytes / None result: None is modelled as <<>>
\* only where the code itself maps the empty value to None.
Falsy(s) == s = <<>>


\* ceil(a / b) for positive b
CeilDiv(a, b) == (a + b - 1) \div b

\* Frames of the shortest utterance that ends by silence: one speech frame and
\* the non-speech frames that reach the threshold
ShortestUtterance == 1 + CeilDiv(SILENCE_DURATION_MS, VAD_CHUNK_DURATION_MS)

\* What the participants do (fixed from the start): either one participant is
\* alone and publishes up to MaxLoops tracks and MaxFrames frames, or every
\* participant publishes one track and sends one shortest utterance.
Solo == [p \in Identities |->
            IF p = "a" THEN [frames |-> MaxFrames, tracks |-> MaxLoops]
            ELSE [frames |-> 0, tracks |-> 0]]
Room == [p \in Identities |-> [frames |-> ShortestUtterance, tracks |-> 1]]
Scenarios == {Solo, Room}

----------------------------------------------------------------------------
\* Values exchanged with the collaborators

\* One turn task.  `utterance` is the buffer as the running turn found it;
\* `calls` and `emitted` are history (stages invoked, frames captured), and so
\* are `heard` (what the transcriber's response was, see Heard) and `decoded`
\* (samples decoded from the synthesizer's body); `stream_error` tells, while
\* the turn runs, that the answer stream held an error event.
NewTurn(via) ==
    [pc |-> "new", via |-> via, utterance |-> <<>>, stt_arg |-> <<>>,
     text |-> <<>>, answer |-> <<>>, pcm |-> <<>>, pos |-> 0,
     calls |-> {}, emitted |-> 0, heard |-> "none", stream_error |-> FALSE,
     decoded |-> 0, end |-> "none"]

NewLoop == [pc |-> "wait", frame |-> 0, barrier |-> 0]

StagePcs == {"stt", "govt", "tts", "play"}

\* Outcomes of the detector call of handle_vad
VadOutcomes == {"speech", "silence", "status", "client_error", "exception"}

\* A stage call fails by a status other than 200, by an aiohttp.ClientError
\* (both handled inside the stage function) or by another exception, which
\* reaches trigger_conversation_turn's `except Exception`: among these is the
\* asyncio.TimeoutError of the client session's total timeout (the session is
\* created without arguments at line 51, so the client's default applies)
\* when the service does not respond.

\* Transcriber responses: a failure, or status 200 with a "transcription" text
SttTexts == {<<>>, <<" ">>, <<"h">>, <<" ", "h", " ">>}
SttOutcomes ==
    [kind : {"status", "client_error", "exception"}, text : {<<>>}]
        \cup [kind : {"ok"}, text : SttTexts]

\* Answer-service responses: a failure, or status 200 with a stream of lines.
\* A line is a JSON event (type, content) or not valid JSON.
Chunk(c) == [json |-> TRUE, type |-> "answer_chunk", content |-> c]
FinalData == [json |-> TRUE, type |-> "final_data", content |-> <<>>]
ErrorEvent == [json |-> TRUE, type |-> "error", content |-> <<"e">>]
BadLine == [json |-> FALSE, type |-> "", content |-> <<"x">>]
GovtStreams ==
    { <<>>,
      <<Chunk(<<"w">>), FinalData>>,
      <<Chunk(<<"w">>), BadLine, Chunk(<<"d">>), FinalData>>,
      <<FinalData>>,
      <<ErrorEvent>>,
      <<Chunk(<<"w">>), ErrorEvent>> }
GovtOutcomes ==
    [kind : {"status", "client_error", "exception"}, lines : {<<>>}]
        \cup [kind : {"ok"}, lines : GovtStreams]

\* Synthesizer responses: a failure, or status 200 with a body.  A body is
\* described by what decoding it gives: nothing to decode (empty body), a
\* decoding error, or the decoded PCM samples at the outbound format.
EmptyBody == [empty |-> TRUE, decodable |-> FALSE, samples |-> <<>>]
Garbage == [empty |-> FALSE, decodable |-> FALSE, samples |-> <<>>]
Mp3(samples) == [empty |-> FALSE, decodable |-> TRUE, samples |-> samples]
TtsBodies == {EmptyBody, Garbage, Mp3(<<>>), Mp3(<<7, 8>>), Mp3(<<7, 8, 9>>)}
TtsOutcomes ==
    [kind : {"status", "client_error", "exception"}, body : {EmptyBody}]
        \cup [kind : {"ok"}, body : TtsBodies]

----------------------------------------------------------------------------
\* The collaborator services (src/vad/main.py, src/tts/main.py)

\* Speech confidence threshold 0.5; probabilities are counted in tenths
VAD_THRESHOLD == 5
Probabilities == 0..10

\* Mutant of IsSpeech: strict comparison
IsSpeech_Strict(prob) == prob > VAD_THRESHOLD

\* is_speech = speech_prob >= VAD_THRESHOLD
IsSpeech(prob) == prob >= VAD_THRESHOLD

\* A response of a service.  `invoked` is history: the model (detector) or
\* the synthesizer was called for the request.
Response(status, is_speech, confidence, audio, invoked) ==
    [status |-> status, is_speech |-> is_speech, confidence |-> confidence,
     audio |-> audio, invoked |-> invoked]

\* detect_speech for a request body (bytes) once the model is loaded (the
\* service starts serving only after load_model succeeded).  `prob` is what
\* the model returns for the body, -1 when it raises.  np.frombuffer raises
\* on a body that is not a whole number of int16 samples; every exception
\* gives status 500.
DetectSpeech(body, prob) ==
    IF Len(body) = 0 THEN Response(200, FALSE, 0, FALSE, FALSE)
    ELSE IF Len(body) % 2 # 0 THEN Response(500, FALSE, 0, FALSE, FALSE)
    ELSE IF prob < 0 THEN Response(500, FALSE, 0, FALSE, TRUE)
    ELSE Response(200, IsSpeech(prob), prob, FALSE, TRUE)

\* Mutant of BlankText: only the empty text is rejected
BlankText_EmptyOnly(text) == text = <<>>

\* `not request.text or not request.text.strip()`
BlankText(text) == Falsy(text) \/ Falsy(Strip(text))

\* synthesize_speech (the service) for a text.  `backend` is what gTTS does
\* when called: "ok", "gtts_error" (gTTSError) or "error" (another exception).
Synthesize(text, backend) ==
    IF BlankText(text) THEN Response(400, FALSE, 0, FALSE, FALSE)
    ELSE IF backend = "ok" THEN Response(200, FALSE, 0, TRUE, TRUE)
    ELSE Response(500, FALSE, 0, FALSE, TRUE)

\* bounds of the requests
MaxText == 2       \* characters of a text sent to the synthesis service
MaxLines == 3      \* lines of an answer stream

\* All sequences over S of length at most n
SeqUpTo(S, n) == UNION {[1..m -> S] : m \in 0..n}

\* No request
NoCall ==
    [fn |-> "none", body |-> <<>>, prob |-> 0, text |-> <<>>, backend |-> "ok",
     lines |-> <<>>, done |-> FALSE, answer |-> <<>>,
     response |-> Response(0, FALSE, 0, FALSE, FALSE)]

\* Requests: a body of up to 2 bytes and the model's answer for it
DetectCalls ==
    {[NoCall EXCEPT !.fn = "detect_speech", !.body = b, !.prob = pr] :
        b \in SeqUpTo({1}, 2), pr \in Probabilities \cup {-1}}

\* Requests: a text of blanks and letters, and gTTS's behaviour
SynthesizeCalls ==
    {[NoCall EXCEPT !.fn = "synthesize", !.text = t, !.backend = b] :
        t \in SeqUpTo({" ", "a"}, MaxText), b \in {"ok", "gtts_error", "error"}}

----------------------------------------------------------------------------
\* ParticipantProcessor

\* frame_size = int(rate * (frame_duration_ms / 1000.0))
FrameSizeAt(rate) == (rate * FRAME_DURATION_MS) \div 1000

\* ... at the scaled rate
FrameSize == FrameSizeAt(OUT_SAMPLE_RATE)

\* asyncio.Lock: locked flag and FIFO of waiting turn tasks
FreeLock == [locked |-> FALSE, waiters |-> <<>>]

Locked(p) == processing_lock[p].locked

\* Mutant of CanAcquireNow: the turn enters without looking at the lock
CanAcquireNow_Unguarded(p) == TRUE

\* asyncio.Lock.acquire without suspending: only when unlocked and nobody waits
CanAcquireNow(p) == ~processing_lock[p].locked /\ processing_lock[p].waiters = <<>>

\* The orchestrator after main() has set up the room: no processor yet
ProgramStart ==
    /\ processors = [p \in Identities |-> "absent"]
    /\ session_open = [p \in Identities |-> FALSE]
    /\ audio_buffer = [p \in Identities |-> <<>>]
    /\ is_speaking = [p \in Identities |-> FALSE]
    /\ silence_frames = [p \in Identities |-> 0]
    /\ speech_duration_ms = [p \in Identities |-> 0]
    /\ processing_lock = [p \in Identities |-> FreeLock]
    /\ loops = [p \in Identities |-> <<>>]
    /\ turns = [p \in Identities |-> <<>>]
    /\ track = <<>>
    /\ frames_in = [p \in Identities |-> 0]
    /\ dropped = [p \in Identities |-> 0]
    /\ nonspeech_run = [p \in Identities |-> 0]

Init ==
    /\ ProgramStart
    /\ quota \in Scenarios
    /\ call = NoCall


\* reset_speech_state (the four assignments, for processor p)
ResetSpeechState(p) ==
    /\ is_speaking' = [is_speaking EXCEPT ![p] = FALSE]
    /\ audio_buffer' = [audio_buffer EXCEPT ![p] = <<>>]
    /\ silence_frames' = [silence_frames EXCEPT ![p] = 0]
    /\ speech_duration_ms' = [speech_duration_ms EXCEPT ![p] = 0]

\* Mutant of SkipFrame: the loop does not look at the lock
SkipFrame_Never(p) == FALSE

\* `if self.processing_lock.locked(): continue`
SkipFrame(p) == Locked(p)

\* Mutant of CountsSilence: a non-speech frame counts in every state
CountsSilence_WhenIdle(speech, speaking) == ~speech

\* `elif self.is_speaking:` (line 79): the frame is not speech and the
\* session is speaking
CountsSilence(speech, speaking) == ~speech /\ speaking

\* self.silence_frames after lines 72-80 (speech resets, silence while
\* speaking counts)
NextSilenceFrames(speech, speaking, n) ==
    IF speech THEN 0 ELSE IF CountsSilence(speech, speaking) THEN n + 1 ELSE n

\* Mutant of NextSpeechDuration: every classified frame adds to the duration
NextSpeechDuration_EveryFrame(speech, d) == d + VAD_CHUNK_DURATION_MS

\* self.speech_duration_ms after line 78
NextSpeechDuration(speech, d) ==
    IF speech THEN d + VAD_CHUNK_DURATION_MS ELSE d

\* Mutant of SilenceReached: the frame being handled is counted twice
SilenceReached_OneEarly(n) ==
    (n + 1) * VAD_CHUNK_DURATION_MS >= SILENCE_DURATION_MS

\* silence_ms >= SILENCE_DURATION_MS, with silence_ms = silence_frames * chunk
SilenceReached(n) == n * VAD_CHUNK_DURATION_MS >= SILENCE_DURATION_MS

\* Mutant of MaxReached: strict comparison
MaxReached_Strict(d) == d > MAX_SPEECH_DURATION_MS

\* self.speech_duration_ms >= MAX_SPEECH_DURATION_S * 1000
MaxReached(d) == d >= MAX_SPEECH_DURATION_MS

\* `buffered_audio = self.audio_buffer` binds a second name to the session's
\* one bytearray (no copy); what is read through it is the bytearray's content
\* at the time of the read.  `before` is the content at the assignment,
\* `now` the content when transcribe_audio(buffered_audio) is called.
BufferedAudio(before, now) == now

\* Mutant of Release: the lock is taken with acquire() and never released
Release_Forgotten(lock) == lock

\* The lock as the turn leaves `async with self.processing_lock`
Release(lock) == [lock EXCEPT !.locked = FALSE]

\* Mutant of GovtAccumulate: a line that is not JSON ends the reading
RECURSIVE GovtAccumulate_StopsAtBadLine(_)
GovtAccumulate_StopsAtBadLine(lines) ==
    IF lines = <<>> \/ ~Head(lines).json THEN <<>>
    ELSE (IF Head(lines).type = "answer_chunk" THEN Head(lines).content ELSE <<>>)
            \o GovtAccumulate_StopsAtBadLine(Tail(lines))

\* query_govt_api: fold of the stream's lines into full_response
RECURSIVE GovtAccumulate(_)
GovtAccumulate(lines) ==
    IF lines = <<>> THEN <<>>
    ELSE LET line == Head(lines)
         IN (IF line.json /\ line.type = "answer_chunk" THEN line.content ELSE <<>>)
                \o GovtAccumulate(Tail(lines))

\* History: the stream holds an event of type "error"
HasErrorEvent(lines) ==
    \E i \in DOMAIN lines : lines[i].json /\ lines[i].type = "error"

\* History: the kind of response the transcriber gave
Heard(out) ==
    IF out.kind # "ok" THEN "failed"
    ELSE IF \A i \in DOMAIN out.text : out.text[i] = " " THEN "blank"
    ELSE "text"

\* transcribe_audio's return value (<<>> stands for None)
SttResult(out) ==
    IF out.kind = "ok" THEN Strip(out.text) ELSE <<>>

\* query_govt_api's return value (<<>> stands for None and for "")
GovtResult(out) ==
    IF out.kind = "ok" THEN GovtAccumulate(out.lines) ELSE <<>>

\* Mutant of PlayChunk: the last chunk is sent as it is
PlayChunk_Unpadded(pcm, i) == SubSeq(pcm, i + 1, Min(i + FrameSize, Len(pcm)))

\* chunk = pcm_data[i:i+frame_size], padded with zeros to frame_size
PlayChunk(pcm, i) ==
    LET chunk == SubSeq(pcm, i + 1, Min(i + FrameSize, Len(pcm)))
    IN chunk \o [j \in 1..(FrameSize - Len(chunk)) |-> 0]

----------------------------------------------------------------------------
\* main(): event handlers

\* on_track_subscribed for an audio track of a participant other than the bot.
\* A participant that has left does not publish again (environment).
TrackSubscribed(p) ==
    /\ Len(loops[p]) < quota[p].tracks
    /\ processors[p] # "removed"
    /\ IF processors[p] = "absent"
       THEN /\ processors' = [processors EXCEPT ![p] = "live"]
            /\ session_open' = [session_open EXCEPT ![p] = TRUE]
       ELSE UNCHANGED <<processors, session_open>>
    /\ loops' = [loops EXCEPT ![p] = Append(@, NewLoop)]
    /\ UNCHANGED <<session_vars, processing_lock, turns, track, frames_in,
                   quota, dropped, nonspeech_run, call>>

\* on_participant_disconnected up to `await processors[...].close()`
Disconnect(p) ==
    /\ processors[p] = "live"
    /\ processors' = [processors EXCEPT ![p] = "closing"]
    /\ session_open' = [session_open EXCEPT ![p] = FALSE]
    /\ UNCHANGED <<session_vars, processing_lock, loops, turns, track, frames_in,
                   quota, dropped, nonspeech_run, call>>

\* ... and `del processors[participant.identity]`
DisconnectDone(p) ==
    /\ processors[p] = "closing"
    /\ processors' = [processors EXCEPT ![p] = "removed"]
    /\ UNCHANGED <<session_open, session_vars, processing_lock, loops, turns,
                   track, frames_in, quota, dropped, nonspeech_run, call>>

----------------------------------------------------------------------------
\* process_audio_stream / handle_vad

\* The stream yields the next frame to loop l: the lock test, the resampling
\* and the start of the detector request.  The frame is named by its arrival
\* number.  A closed session makes session.post raise RuntimeError, which
\* handle_vad does not catch: the loop ends.
FrameArrives(p, l) ==
    /\ loops[p][l].pc = "wait"
    /\ frames_in[p] < quota[p].frames
    /\ frames_in' = [frames_in EXCEPT ![p] = @ + 1]
    /\ dropped' = [dropped EXCEPT ![p] = IF SkipFrame(p) THEN @ + 1 ELSE @]
    /\ loops' = [loops EXCEPT ![p][l] =
                    IF SkipFrame(p) THEN @
                    ELSE IF ~session_open[p] THEN [@ EXCEPT !.pc = "dead"]
                    ELSE [pc |-> "vad", frame |-> frames_in[p] + 1,
                          barrier |-> Len(turns[p])]]
    /\ UNCHANGED <<processors, session_open, session_vars, processing_lock,
                   turns, track, quota, nonspeech_run, call>>

\* The detector's answer reaches handle_vad (lines 66-91).  Turn tasks created
\* before the request was sent have started by then (asyncio runs a created
\* task before any later I/O completion).
HandleVadResponse(p, l, out) ==
    LET lp == loops[p][l]
        frame == lp.frame
        speech == out = "speech"
        classified == out \in {"speech", "silence"}
        sil == NextSilenceFrames(speech, is_speaking[p], silence_frames[p])
        dur == NextSpeechDuration(speech, speech_duration_ms[p])
        bySilence == CountsSilence(speech, is_speaking[p]) /\ SilenceReached(sil)
        byMax == MaxReached(dur)
        created == (IF bySilence THEN <<NewTurn("silence")>> ELSE <<>>)
                       \o (IF byMax THEN <<NewTurn("max")>> ELSE <<>>)
    IN /\ lp.pc = "vad"
       /\ \A k \in 1..Min(lp.barrier, Len(turns[p])) : turns[p][k].pc # "new"
       /\ loops' = [loops EXCEPT ![p][l] =
                       [pc |-> IF out = "exception" THEN "dead" ELSE "wait",
                        frame |-> 0, barrier |-> 0]]
       /\ IF classified
          THEN /\ silence_frames' = [silence_frames EXCEPT ![p] = sil]
               /\ is_speaking' = [is_speaking EXCEPT ![p] = @ \/ speech]
               /\ audio_buffer' = [audio_buffer EXCEPT ![p] =
                                      IF speech THEN Append(@, frame) ELSE @]
               /\ speech_duration_ms' = [speech_duration_ms EXCEPT ![p] = dur]
               /\ turns' = [turns EXCEPT ![p] = @ \o created]
               /\ nonspeech_run' = [nonspeech_run EXCEPT ![p] =
                                       IF speech THEN 0 ELSE @ + 1]
          ELSE UNCHANGED <<session_vars, turns, nonspeech_run>>
       /\ UNCHANGED <<processors, session_open, processing_lock, track, frames_in,
                      quota, dropped, call>>


----------------------------------------------------------------------------
\* trigger_conversation_turn

\* A finished task: its locals are gone, the history of what it did stays
Ended(rec, how) ==
    [rec EXCEPT !.pc = "done", !.end = how, !.utterance = <<>>,
                !.stream_error = FALSE, !.stt_arg = <<>>, !.text = <<>>,
                !.answer = <<>>, !.pcm = <<>>, !.pos = 0]

\* Mutant of FinishTurn: an exception leaves the lock held
FinishTurn_HeldOnException(p, k, rec, how) ==
    /\ turns' = [turns EXCEPT ![p][k] = Ended(rec, how)]
    /\ processing_lock' = [processing_lock EXCEPT ![p] =
                              IF how = "exception" THEN @ ELSE Release(@)]

\* Mutant of FinishTurn: one lock for all the processors
FinishTurn_SharedLock(p, k, rec, how) ==
    /\ turns' = [turns EXCEPT ![p][k] = Ended(rec, how)]
    /\ processing_lock' = [q \in Identities |-> Release(processing_lock[q])]

\* The turn leaves the `async with` block: task over, lock released
FinishTurn(p, k, rec, how) ==
    /\ turns' = [turns EXCEPT ![p][k] = Ended(rec, how)]
    /\ processing_lock' = [processing_lock EXCEPT ![p] = Release(@)]

\* The turn stays inside the `async with` block, suspended in a stage
StayInTurn(p, k, rec) ==
    /\ turns' = [turns EXCEPT ![p][k] = rec]
    /\ UNCHANGED processing_lock

\* Lines 96-106 once the lock is acquired; w is the waiter queue left
EnterTurn(p, k, w) ==
    LET t == turns[p][k]
        buf == audio_buffer[p]
        held == [locked |-> TRUE, waiters |-> w]
        found == [t EXCEPT !.utterance = buf]
    IN /\ ResetSpeechState(p)
       /\ IF buf = <<>>
          THEN \* "Triggered conversation but buffer is empty."
               /\ turns' = [turns EXCEPT ![p][k] =
                               Ended(found, "empty_buffer")]
               /\ processing_lock' = [processing_lock EXCEPT ![p] = Release(held)]
          ELSE IF ~session_open[p]
          THEN \* session.post raises RuntimeError: caught at line 123
               /\ turns' = [turns EXCEPT ![p][k] =
                               Ended(found, "exception")]
               /\ processing_lock' = [processing_lock EXCEPT ![p] = Release(held)]
          ELSE /\ turns' = [turns EXCEPT ![p][k] =
                               [found EXCEPT !.pc = "stt",
                                             !.stt_arg = BufferedAudio(buf, audio_buffer'[p]),
                                             !.calls = @ \cup {"stt"}]]
               /\ processing_lock' = [processing_lock EXCEPT ![p] = held]

\* The created task runs for the first time: `async with self.processing_lock`
\* either acquires the lock at once or queues the task behind it.
TurnStart(p, k) ==
    /\ turns[p][k].pc = "new"
    /\ \A j \in 1..(k - 1) : turns[p][j].pc # "new"
    /\ IF CanAcquireNow(p)
       THEN EnterTurn(p, k, processing_lock[p].waiters)
       ELSE /\ turns' = [turns EXCEPT ![p][k].pc = "waitlock"]
            /\ processing_lock' = [processing_lock EXCEPT ![p].waiters = Append(@, k)]
            /\ UNCHANGED session_vars
    /\ UNCHANGED <<processors, session_open, loops, track, frames_in, quota, dropped,
                   nonspeech_run, call>>

\* The first waiter is woken by a release and takes the lock
TurnResume(p, k) ==
    /\ turns[p][k].pc = "waitlock"
    /\ ~Locked(p)
    /\ processing_lock[p].waiters # <<>>
    /\ Head(processing_lock[p].waiters) = k
    /\ EnterTurn(p, k, Tail(processing_lock[p].waiters))
    /\ UNCHANGED <<processors, session_open, loops, track, frames_in, quota, dropped,
                   nonspeech_run, call>>

\* 1. Speech-to-Text answers (lines 106-111)
SttResponse(p, k, out) ==
    LET t == turns[p][k]
        text == SttResult(out)
        got == [t EXCEPT !.text = text, !.heard = Heard(out)]
    IN /\ t.pc = "stt"
       /\ IF out.kind = "exception" THEN FinishTurn(p, k, got, "exception")
          ELSE IF Falsy(text) THEN FinishTurn(p, k, got, "no_text")
          ELSE IF ~session_open[p] THEN FinishTurn(p, k, got, "exception")
          ELSE StayInTurn(p, k, [got EXCEPT !.pc = "govt", !.calls = @ \cup {"govt"}])
       /\ UNCHANGED <<processors, session_open, session_vars, loops, track,
                      frames_in, nonspeech_run, quota, dropped, call>>

\* 2. Government API answers (lines 111-116)
GovtResponse(p, k, out) ==
    LET t == turns[p][k]
        answer == GovtResult(out)
        got == [t EXCEPT !.answer = answer,
                         !.stream_error = HasErrorEvent(out.lines)]
    IN /\ t.pc = "govt"
       /\ IF out.kind = "exception" THEN FinishTurn(p, k, got, "exception")
          ELSE IF Falsy(answer) THEN FinishTurn(p, k, got, "no_answer")
          ELSE IF ~session_open[p] THEN FinishTurn(p, k, got, "exception")
          ELSE StayInTurn(p, k, [got EXCEPT !.pc = "tts", !.calls = @ \cup {"tts"}])
       /\ UNCHANGED <<processors, session_open, session_vars, loops, track,
                      frames_in, nonspeech_run, quota, dropped, call>>

\* 3. Text-to-Speech answers (lines 116-121) and play_audio_to_room decodes
TtsResponse(p, k, out) ==
    LET t == turns[p][k]
        body == out.body
        called == [t EXCEPT !.calls = @ \cup {"play"},
                            !.decoded = Len(body.samples)]
    IN /\ t.pc = "tts"
       /\ IF out.kind = "exception" THEN FinishTurn(p, k, t, "exception")
          ELSE IF out.kind # "ok" \/ body.empty THEN FinishTurn(p, k, t, "no_audio")
          ELSE IF ~body.decodable THEN FinishTurn(p, k, called, "play_error")
          ELSE IF body.samples = <<>> THEN FinishTurn(p, k, called, "played")
          ELSE StayInTurn(p, k, [called EXCEPT !.pc = "play", !.pcm = body.samples,
                                               !.pos = 0])
       /\ UNCHANGED <<processors, session_open, session_vars, loops, track,
                      frames_in, nonspeech_run, quota, dropped, call>>

\* 4. One iteration of the playback loop (lines 211-224): capture_frame takes
\* the frame (ok) or raises, which line 225 catches.
PlayFrame(p, k, ok) ==
    LET t == turns[p][k]
    IN /\ t.pc = "play"
       /\ t.pos < Len(t.pcm)
       /\ IF ok
          THEN /\ track' = Append(track, [who |-> <<p, k>>, n |-> t.emitted + 1,
                                          data |-> PlayChunk(t.pcm, t.pos)])
               /\ StayInTurn(p, k, [t EXCEPT !.pos = @ + FrameSize,
                                             !.emitted = @ + 1])
          ELSE /\ FinishTurn(p, k, t, "play_error")
               /\ UNCHANGED track
       /\ UNCHANGED <<processors, session_open, session_vars, loops, frames_in,
                      quota, dropped, nonspeech_run, call>>

\* The playback loop is over: the turn ends
PlayDone(p, k) ==
    LET t == turns[p][k]
    IN /\ t.pc = "play"
       /\ t.pos >= Len(t.pcm)
       /\ FinishTurn(p, k, t, "played")
       /\ UNCHANGED <<processors, session_open, session_vars, loops, track,
                      frames_in, nonspeech_run, quota, dropped, call>>

----------------------------------------------------------------------------
Next ==
    \E p \in Identities :
        \/ TrackSubscribed(p)
        \/ Disconnect(p)
        \/ DisconnectDone(p)
        \/ \E l \in DOMAIN loops[p] :
              \/ FrameArrives(p, l)
              \/ \E out \in VadOutcomes : HandleVadResponse(p, l, out)
        \/ \E k \in DOMAIN turns[p] :
              \/ TurnStart(p, k)
              \/ TurnResume(p, k)
              \/ \E out \in SttOutcomes : SttResponse(p, k, out)
              \/ \E out \in GovtOutcomes : GovtResponse(p, k, out)
              \/ \E out \in TtsOutcomes : TtsResponse(p, k, out)
              \/ \E ok \in BOOLEAN : PlayFrame(p, k, ok)
              \/ PlayDone(p, k)

Spec == Init /\ [][Next]_vars

\* The code awaits every response with the client's timeout, and the event
\* loop runs whatever is ready: the system does not stop while a step is
\* possible.
FairSpec == Spec /\ WF_vars(Next)

----------------------------------------------------------------------------
\* The services and the stream fold on their own: one request, drawn from a
\* bounded set, is served.

program_vars ==
    <<processors, session_open, audio_buffer, is_speaking, silence_frames,
      speech_duration_ms, processing_lock, loops, turns, track, frames_in,
      quota, dropped, nonspeech_run>>

\* The lines an answer stream is made of
LineKinds == {Chunk(<<"w">>), Chunk(<<"d">>), FinalData, ErrorEvent, BadLine}

\* Requests: an answer stream of up to MaxLines lines
AccumulateCalls ==
    {[NoCall EXCEPT !.fn = "query_govt_api", !.lines = ls] :
        ls \in SeqUpTo(LineKinds, MaxLines)}

ServiceInit ==
    /\ ProgramStart
    /\ quota = Solo
    /\ \/ call \in DetectCalls
       \/ call \in SynthesizeCalls
       \/ call \in AccumulateCalls

\* POST /detect_speech
ServeDetectSpeech ==
    /\ call.fn = "detect_speech"
    /\ ~call.done
    /\ call' = [call EXCEPT !.done = TRUE,
                            !.response = DetectSpeech(call.body, call.prob)]
    /\ UNCHANGED program_vars

\* POST /synthesize
ServeSynthesize ==
    /\ call.fn = "synthesize"
    /\ ~call.done
    /\ call' = [call EXCEPT !.done = TRUE,
                            !.response = Synthesize(call.text, call.backend)]
    /\ UNCHANGED program_vars

\* query_govt_api reads a status-200 stream to its end
AccumulateAnswer ==
    /\ call.fn = "query_govt_api"
    /\ ~call.done
    /\ call' = [call EXCEPT !.done = TRUE,
                            !.answer = GovtResult([kind |-> "ok", lines |-> call.lines])]
    /\ UNCHANGED program_vars

ServiceNext == ServeDetectSpeech \/ ServeSynthesize \/ AccumulateAnswer

ServiceSpec == ServiceInit /\ [][ServiceNext]_vars

----------------------------------------------------------------------------
\* Properties

Pending(p) == {k \in DOMAIN turns[p] : turns[p][k].pc \in {"new", "waitlock"}}
InPipeline(p) == {k \in DOMAIN turns[p] : turns[p][k].pc \in StagePcs}
Idle(p) ==
    /\ ~is_speaking[p]
    /\ audio_buffer[p] = <<>>
    /\ silence_frames[p] = 0
    /\ speech_duration_ms[p] = 0

\* C1: in every reachable state each session has at most one turn task inside
\* the pipeline (transcribe, answer, synthesize, playback); a second task
\* triggered meanwhile waits outside it.
C1_OneTurnInFlight ==
    \A p \in Identities : Cardinality(InPipeline(p)) <= 1

C1_Witness ==
    \E p \in Identities :
        \E k \in InPipeline(p) : \E j \in DOMAIN turns[p] :
            j # k /\ turns[p][j].pc = "waitlock"

\* C2: the utterance given to the transcription stage is the sequence of
\* frames the turn found in the buffer, in arrival order; resetting the
\* session's buffer does not empty it.
C2_UtteranceHandedOver ==
    \A p \in Identities : \A k \in DOMAIN turns[p] :
        turns[p][k].pc = "stt" => turns[p][k].stt_arg = turns[p][k].utterance


\* Turn tasks created by the step, and tasks that take the utterance in the
\* step (they leave the lock's entry and run lines 96-102)
Created(p) == {k \in DOMAIN turns'[p] : k > Len(turns[p])}
Entered(p) ==
    {k \in Pending(p) : turns'[p][k].pc \notin {"new", "waitlock"}}
SpeechFrameTaken(p) == Len(audio_buffer'[p]) > Len(audio_buffer[p])
NonSpeechFrameTaken(p) == nonspeech_run'[p] = nonspeech_run[p] + 1
BelowThreshold(n) == n * VAD_CHUNK_DURATION_MS < SILENCE_DURATION_MS

\* C3: a turn is triggered by silence only by a frame that ends a run of
\* consecutive non-speech frames lasting at least the silence threshold (a
\* shorter run triggers none), and a speech frame sets the silence count
\* back to zero.
C3_ShortSilenceNeverTriggers ==
    [][\A p \in Identities :
          /\ (\E k \in Created(p) : turns'[p][k].via = "silence")
                => /\ NonSpeechFrameTaken(p)
                   /\ ~BelowThreshold(nonspeech_run'[p])
          /\ SpeechFrameTaken(p) => silence_frames'[p] = 0]_vars

C3_Witness ==
    \E p \in Identities :
        /\ is_speaking[p]
        /\ silence_frames[p] >= 1
        /\ BelowThreshold(silence_frames[p])
        /\ Len(audio_buffer[p]) >= 2
        /\ turns[p] = <<>>

\* C4: the non-speech frame that reaches the silence threshold while Speaking
\* triggers exactly one turn; no second turn is triggered for the same
\* utterance (at most one task is waiting to take it); and the task that
\* takes the utterance leaves the session Idle, with an empty buffer and
\* zero counters.
C4_ExactlyOneTurn ==
    [][\A p \in Identities :
          /\ (/\ NonSpeechFrameTaken(p)
              /\ is_speaking[p]
              /\ ~BelowThreshold(silence_frames[p] + 1))
                => Cardinality(Created(p)) = 1
          /\ Cardinality({k \in Pending(p)' : turns'[p][k].via = "silence"}) <= 1
          /\ Entered(p) # {} => Idle(p)']_vars

\* Once the duration is at the maximum the session gets Idle
C5_CapLeadsToIdle ==
    \A p \in Identities :
        (speech_duration_ms[p] >= MAX_SPEECH_DURATION_MS) ~> Idle(p)

\* C5: the speech frame that brings the accumulated speech duration to the
\* maximum triggers a turn in the same step, whatever the silence count; a
\* turn stays pending for as long as the duration is at the maximum; the
\* task that takes the utterance leaves the session Idle; and a session at
\* the maximum does get Idle.
C5_MaxDurationCap ==
    /\ C5_CapLeadsToIdle
    /\ [][\A p \in Identities :
          /\ (SpeechFrameTaken(p)
                /\ speech_duration_ms'[p] >= MAX_SPEECH_DURATION_MS)
                => \E k \in Created(p) : turns'[p][k].via = "max"
          /\ speech_duration_ms'[p] >= MAX_SPEECH_DURATION_MS
                => Pending(p)' # {}
          /\ Entered(p) # {} => Idle(p)']_vars

C5_Witness ==
    \E p \in Identities : \E k \in DOMAIN turns[p] :
        /\ turns[p][k].via = "max"
        /\ turns[p][k].pc = "stt"
        /\ Len(turns[p][k].utterance) * VAD_CHUNK_DURATION_MS
              >= MAX_SPEECH_DURATION_MS
        /\ Idle(p)

\* C6: a frame that arrives while the session's lock is held starts no
\* detector request, is not buffered or queued, and leaves is_speaking, the
\* silence counter and the speech duration as they were.
C6_FrameDuringTurnDiscarded ==
    [][\A p \in Identities :
          (Locked(p) /\ frames_in'[p] = frames_in[p] + 1)
              => /\ loops'[p] = loops[p]
                 /\ audio_buffer'[p] = audio_buffer[p]
                 /\ is_speaking'[p] = is_speaking[p]
                 /\ silence_frames'[p] = silence_frames[p]
                 /\ speech_duration_ms'[p] = speech_duration_ms[p]
                 /\ turns'[p] = turns[p]]_vars

C6_Witness ==
    \E p \in Identities : Locked(p) /\ dropped[p] > 0

\* C7: a held lock is eventually released, and every step that ends a turn
\* (whatever the exit path) leaves the lock released.
C7_LockReleased ==
    /\ \A p \in Identities : Locked(p) ~> ~Locked(p)
    /\ [][\A p \in Identities : \A k \in DOMAIN turns[p] :
             (turns[p][k].pc # "done" /\ turns'[p][k].pc = "done")
                 => ~Locked(p)']_vars

C7_Witness ==
    \E p \in Identities : \E k \in DOMAIN turns[p] :
        /\ turns[p][k].end = "exception"
        /\ "govt" \in turns[p][k].calls
        /\ ~Locked(p)

\* C8: when a turn ends (its lock is released) the session is Idle with an
\* empty buffer and zero counters.
C8_IdleAtTurnEnd ==
    [][\A p \in Identities : (Locked(p) /\ ~Locked(p)') => Idle(p)']_vars

\* C9: the frames of one payload are contiguous on the shared track: frames
\* of two payloads are never interleaved.
C9_PlaybackNotInterleaved ==
    \A i, j, k \in DOMAIN track :
        (i < j /\ j < k /\ track[i].who = track[k].who)
            => track[j].who = track[i].who

\* C10: a turn whose transcription came back empty, whitespace-only or
\* failed calls neither the answer service nor the synthesizer and emits no
\* playback frame.
C10_NoTextNoCalls ==
    \A p \in Identities : \A k \in DOMAIN turns[p] :
        turns[p][k].heard \in {"blank", "failed"}
            => /\ turns[p][k].calls = {"stt"}
               /\ turns[p][k].emitted = 0
               /\ \A i \in DOMAIN track : track[i].who # <<p, k>>

C10_Witness ==
    \E p \in Identities : \E k \in DOMAIN turns[p] :
        turns[p][k].heard = "blank" /\ turns[p][k].pc = "done"


\* C11: every session has at most one frame-consumption loop: a second
\* audio-track arrival for a participant that already has a session starts
\* no second loop.
C11_OneFrameLoop ==
    \A p \in Identities : Len(loops[p]) <= 1

\* A detector response is handled in the step (the loop leaves handle_vad)
VadHandled(p) ==
    \E l \in DOMAIN loops[p] : loops[p][l].pc = "vad" /\ loops'[p][l].pc # "vad"

\* C12: the session's network handle is released before the session leaves
\* the live set, and once the session has left it no frame of the participant
\* is classified or changes the session's state or creates a turn.
C12_NoFrameAfterDeparture ==
    /\ [](\A p \in Identities : processors[p] = "removed" => ~session_open[p])
    /\ [][\A p \in Identities :
             (processors[p] = "removed" /\ VadHandled(p))
                 => /\ ~SpeechFrameTaken(p)
                    /\ ~NonSpeechFrameTaken(p)
                    /\ <<audio_buffer[p], is_speaking[p], silence_frames[p],
                         speech_duration_ms[p], turns[p]>>'
                         = <<audio_buffer[p], is_speaking[p], silence_frames[p],
                             speech_duration_ms[p], turns[p]>>]_vars

\* C13: once a session has left the live set the shared outbound track
\* captures no frame of a turn of that session.
C13_NoPlaybackAfterDeparture ==
    [][\A p \in Identities :
          processors[p] = "removed"
              => \A i \in DOMAIN track' :
                    i > Len(track) => track'[i].who[1] # p]_vars


\* The detector call of a frame failed in the step: the loop leaves
\* handle_vad and goes on, and the frame was not classified
VadFailed(p) ==
    /\ \E l \in DOMAIN loops[p] : loops[p][l].pc = "vad" /\ loops'[p][l].pc = "wait"
    /\ ~SpeechFrameTaken(p)
    /\ ~NonSpeechFrameTaken(p)

\* C14: a frame whose detector call failed (status other than 200, transport
\* error) counts as a non-speech frame: while Speaking it advances the
\* silence counter by one.
C14_FailedFrameCountsAsSilence ==
    [][\A p \in Identities :
          (VadFailed(p) /\ is_speaking[p])
              => silence_frames'[p] = silence_frames[p] + 1]_vars

\* C15: a turn whose answer stream held an error event does not call the
\* synthesizer and emits no playback frame.
C15_ErrorEventAborts ==
    \A p \in Identities : \A k \in DOMAIN turns[p] :
        turns[p][k].stream_error
            => /\ "tts" \notin turns[p][k].calls
               /\ turns[p][k].emitted = 0


\* A turn of p ends in the step by an exception raised in a stage
EndsByException(p, k) ==
    /\ turns[p][k].pc \in StagePcs
    /\ turns'[p][k].pc = "done"
    /\ turns'[p][k].end = "exception"

\* C16: no turn stays in the pipeline for ever; a turn whose stage call
\* raised (the timeout of a stage that does not respond) ends there, calling
\* no further stage and emitting nothing more, with the lock released; and a
\* frame that arrives while the lock is free is not dropped.
C16_NoTurnPendingForever ==
    /\ \A p \in Identities : (InPipeline(p) # {}) ~> (InPipeline(p) = {})
    /\ [][\A p \in Identities :
             /\ \A k \in DOMAIN turns[p] :
                   EndsByException(p, k)
                       => /\ turns'[p][k].calls = turns[p][k].calls
                          /\ turns'[p][k].emitted = turns[p][k].emitted
                          /\ track' = track
                          /\ ~Locked(p)'
             /\ (~Locked(p) /\ frames_in'[p] = frames_in[p] + 1)
                   => dropped'[p] = dropped[p]]_vars

C16_Witness ==
    \E p \in Identities : \E k \in DOMAIN turns[p] : \E l \in DOMAIN loops[p] :
        /\ turns[p][k].end = "exception"
        /\ turns[p][k].calls = {"stt"}
        /\ session_open[p]
        /\ ~Locked(p)
        /\ dropped[p] > 0
        /\ loops[p][l].pc = "vad"

\* C17: the session's lock is not held while the turn's playback frames are
\* being emitted.
C17_PlaybackOutsideLock ==
    \A p \in Identities : \A k \in DOMAIN turns[p] :
        turns[p][k].pc = "play" => ~Locked(p)


\* Positions of the shared track that hold the frames of turn k of p
FramesOf(p, k) == {i \in DOMAIN track : track[i].who = <<p, k>>}

\* Sample j of frame n of a payload: the payload's sample, or zero past its end
ExpectedSample(pcm, n, j) ==
    LET i == (n - 1) * FrameSize + j
    IN IF i <= Len(pcm) THEN pcm[i] ELSE 0

\* C18: a payload of N samples is emitted as ceil(N / F) frames of exactly F
\* samples, in sample order, the last one filled up with zeros (no frame for
\* N = 0; 50 frames for one second at 48000 samples per second).
C18_PaddedFrames ==
    /\ CeilDiv(48000, FrameSizeAt(48000)) = 50
    /\ \A p \in Identities : \A k \in DOMAIN turns[p] :
          LET t == turns[p][k]
          IN /\ Cardinality(FramesOf(p, k)) = t.emitted
             /\ \A i \in FramesOf(p, k) :
                   /\ Len(track[i].data) = FrameSize
                   /\ track[i].n \in 1..t.emitted
                   /\ \A j \in FramesOf(p, k) : i < j => track[i].n < track[j].n
                   /\ t.pc = "play" =>
                         \A j \in 1..FrameSize :
                            track[i].data[j] = ExpectedSample(t.pcm, track[i].n, j)
             /\ (t.pc = "play" /\ t.pos >= Len(t.pcm))
                   => t.emitted = CeilDiv(Len(t.pcm), FrameSize)
             /\ t.end = "played" => t.emitted = CeilDiv(t.decoded, FrameSize)

C18_Witness ==
    \E p \in Identities : \E k \in DOMAIN turns[p] :
        /\ turns[p][k].pc = "play"
        /\ turns[p][k].pos >= Len(turns[p][k].pcm)
        /\ Len(turns[p][k].pcm) % FrameSize # 0
        /\ turns[p][k].emitted >= 2


\* A turn of p ends in the step without having played its answer to the end
TurnFails(p) ==
    \E k \in DOMAIN turns[p] :
        /\ turns[p][k].pc # "done"
        /\ turns'[p][k].pc = "done"
        /\ turns'[p][k].end # "played"

\* Everything the program holds for session q
SessionOf(q) ==
    <<processors[q], session_open[q], audio_buffer[q], is_speaking[q],
      silence_frames[q], speech_duration_ms[q], processing_lock[q], loops[q],
      turns[q]>>

\* C19: the step in which a turn of one session fails or is abandoned leaves
\* every other session as it was: buffer, speech state, counters, lock, frame
\* loops and turns.
C19_FailureIsolated ==
    [][\A p \in Identities :
          TurnFails(p) => \A q \in Identities \ {p} : SessionOf(q)' = SessionOf(q)]_vars

C19_Witness ==
    \E p \in Identities : \E q \in Identities \ {p} : \E k \in DOMAIN turns[p] :
        /\ turns[p][k].end = "exception"
        /\ InPipeline(q) # {}
        /\ Locked(q)
        /\ \E l \in DOMAIN loops[q] : loops[q][l].pc = "wait"


\* C20: a frame that triggers a turn (by silence or by the maximum duration)
\* leaves at least one speech frame in the buffer for it, and a non-speech
\* frame taken in Idle triggers none.
C20_NoTriggerOnEmptyBuffer ==
    [][\A p \in Identities :
          /\ Created(p) # {} => audio_buffer'[p] # <<>>
          /\ (Idle(p) /\ NonSpeechFrameTaken(p))
                => (Created(p) = {} /\ Idle(p)')]_vars

C20_Witness ==
    \E p \in Identities : \E k \in DOMAIN turns[p] :
        /\ turns[p][k].pc = "new"
        /\ turns[p][k].via = "silence"
        /\ audio_buffer[p] # <<>>
        /\ is_speaking[p]


\* C21: the detection service answers an empty body with is_speech = false
\* and confidence 0 without calling the model, and for a non-empty body that
\* the model scores it reports is_speech = true exactly when the probability
\* is at least the threshold.
C21_DetectSpeechContract ==
    (call.fn = "detect_speech" /\ call.done) =>
        LET r == call.response
        IN /\ call.body = <<>> =>
                 (r.status = 200 /\ ~r.is_speech /\ r.confidence = 0 /\ ~r.invoked)
           /\ (call.body # <<>> /\ r.status = 200) =>
                 /\ r.invoked
                 /\ r.is_speech <=> (call.prob >= VAD_THRESHOLD)
                 /\ r.confidence = call.prob
           /\ (call.body # <<>> /\ r.invoked /\ call.prob >= 0) => r.status = 200

C21_Witness ==
    /\ call.fn = "detect_speech"
    /\ call.done
    /\ call.body # <<>>
    /\ call.prob = VAD_THRESHOLD
    /\ call.response.is_speech

\* C22: the synthesis service answers an empty or whitespace-only text with
\* status 400 without calling the synthesizer, and a synthesizer error on any
\* other text with status 500 and no audio.
C22_SynthesizeRejects ==
    (call.fn = "synthesize" /\ call.done) =>
        LET r == call.response
            blank == \A i \in DOMAIN call.text : call.text[i] = " "
        IN /\ blank => (r.status = 400 /\ ~r.invoked /\ ~r.audio)
           /\ (~blank /\ call.backend # "ok") => (r.status = 500 /\ ~r.audio)
           /\ (~blank /\ call.backend = "ok") => (r.status = 200 /\ r.audio)

C22_Witness ==
    /\ call.fn = "synthesize"
    /\ call.done
    /\ call.text = <<" ", " ">>
    /\ call.response.status = 400

IsAnswerChunk(line) == line.json /\ line.type = "answer_chunk"

\* The contents of a sequence of events, one after the other
RECURSIVE Contents(_)
Contents(events) ==
    IF events = <<>> THEN <<>>
    ELSE Contents(SubSeq(events, 1, Len(events) - 1)) \o events[Len(events)].content

\* C25: the answer text is the concatenation, in stream order, of the
\* contents of the answer_chunk events alone; other events and lines that are
\* not JSON add nothing and do not end the accumulation.
C25_AnswerIsChunksOnly ==
    (call.fn = "query_govt_api" /\ call.done) =>
        call.answer = Contents(SelectSeq(call.lines, IsAnswerChunk))

C25_Witness ==
    /\ call.fn = "query_govt_api"
    /\ call.done
    /\ call.lines = <<Chunk(<<"w">>), BadLine, Chunk(<<"d">>)>>
    /\ call.answer = <<"w", "d">>


\* C23: while the session's lock is held, handling a detector response
\* changes neither the buffer nor is_speaking, the silence counter or the
\* speech duration, also for a request sent before the lock was taken.
C23_LockGuardsState ==
    [][\A p \in Identities :
          (Locked(p) /\ VadHandled(p))
              => <<audio_buffer[p], is_speaking[p], silence_frames[p],
                   speech_duration_ms[p]>>'
                   = <<audio_buffer[p], is_speaking[p], silence_frames[p],
                       speech_duration_ms[p]>>]_vars

StageOrder == <<"stt", "govt", "tts", "play">>

C26_BufferBounded ==
    \A p \in Identities :
        Len(audio_buffer[p]) <= CeilDiv(MAX_SPEECH_DURATION_MS, VAD_CHUNK_DURATION_MS)

\* C27: the step in which a turn fails leaves the session's frame loops as
\* they were and the lock free, and a frame that arrives while the lock is
\* free and the session open is sent to the detector.
C27_LoopSurvivesTurnFailure ==
    [][\A p \in Identities :
          /\ TurnFails(p) => (loops'[p] = loops[p] /\ ~Locked(p)')
          /\ (~Locked(p) /\ session_open[p] /\ frames_in'[p] = frames_in[p] + 1)
                => \E l \in DOMAIN loops[p] :
                      loops[p][l].pc = "wait" /\ loops'[p][l].pc = "vad"]_vars

C27_Witness ==
    \E p \in Identities : \E k \in DOMAIN turns[p] : \E l \in DOMAIN loops[p] :
        /\ turns[p][k].end = "no_answer"
        /\ session_open[p]
        /\ ~Locked(p)
        /\ loops[p][l].pc = "vad"
        /\ InPipeline(p) = {}

\* C28: the speech duration is the chunk duration times the number of
\* buffered frames; a session that is not speaking has an empty buffer and
\* zero counters; and the buffer changes only by being emptied or by taking
\* the frame of a request that was classified as speech.
C28_StateConsistent ==
    /\ [](\A p \in Identities :
            /\ speech_duration_ms[p] = VAD_CHUNK_DURATION_MS * Len(audio_buffer[p])
            /\ ~is_speaking[p] => Idle(p))
    /\ [][\A p \in Identities :
             audio_buffer'[p] # audio_buffer[p]
                 => \/ audio_buffer'[p] = <<>>
                    \/ /\ nonspeech_run'[p] = 0
                       /\ \E l \in DOMAIN loops[p] :
                             /\ loops[p][l].pc = "vad"
                             /\ loops'[p][l].pc = "wait"
                             /\ audio_buffer'[p] =
                                   Append(audio_buffer[p], loops[p][l].frame)]_vars

C28_Witness ==
    \E p \in Identities :
        /\ is_speaking[p]
        /\ Len(audio_buffer[p]) >= 2
        /\ silence_frames[p] >= 1
        /\ speech_duration_ms[p] >= 2 * VAD_CHUNK_DURATION_MS

============================================================================
